---- MODULE Spec2Model ----
(***************************************************************************)
(* A session of the Streamlit script src/app.py, which Streamlit executes   *)
(* from the top at every interaction.  In each run the user has chosen an  *)
(* input kind, an instruction and a source, may have pressed the analyze   *)
(* button that the run before rendered, and the script runs top to bottom, *)
(* calling the media service, the transcript service, the HTTP fetch and   *)
(* the summarization agent.  The temporary directory outlives the runs.    *)
(*                                                                         *)
(* A string is a sequence of symbols.  A symbol is a single character or   *)
(* one fixed phrase of the source (a message, a piece of a prompt          *)
(* template) taken as a unit; the ordinary characters of the model cannot  *)
(* spell such a phrase, so Python's substring test is the search for the   *)
(* phrase's symbols.                                                       *)
(***************************************************************************)
EXTENDS Integers, Sequences, FiniteSets, TLC

VARIABLES
    run,              \* number of the script run, counted from 1
    rendered,         \* input kind whose analyze button is on the page, or None
    pc,               \* position of the script run
    input_type,       \* value of the input kind selectbox
    user_query,       \* value of the instruction text area
    button,           \* value returned by the analyze button of this run
    fs,               \* temporary files present on disk
    video_path,       \* name of the temporary file of this run, or Absent
    processed_video,  \* handle returned by upload_file / get_file, or None
    observed,         \* history: the states the media service has reported
    calls,            \* history: the external calls made, in order
    video_id,         \* result of get_youtube_video_id, or None
    offered,          \* history: what the transcript service offered
    transcript,       \* result of fetch_youtube_transcript, or None
    extracted,        \* history: result of fetch_website_text, or None
    extract_ok,       \* history: the extractor ended without an exception
    content,          \* website text as embedded, or None
    analysis_prompt,  \* the prompt built for the agent, or None
    ui,               \* the banners and results rendered by this run
    escaped           \* an exception that left the script unhandled, or None

vars == <<run, rendered, pc, input_type, user_query, button, fs, video_path, processed_video,
          observed, calls, video_id, offered, transcript, extracted,
          extract_ok, content, analysis_prompt, ui, escaped>>

\* Python's None where the other values are names.
None == "None"

\* A value that may be missing: Absent, or Some(v).
Absent == <<>>
Some(v) == <<v>>

\* ------------------------------------------------------------------ bounds

MaxQueryLen == 2     \* longest instruction
MaxSegments == 2     \* most segments of a transcript
MaxNodes == 2        \* most elements of a page
MaxPolls == 3        \* most Processing reports of the media service
MaxOver == 2         \* longest page text is max_chars + MaxOver
MaxRuns == 2         \* most runs of the script in a session

\* ---------------------------------------------------------------- strings

Min(a, b) == IF a < b THEN a ELSE b

\* The function f with domain 1..n, as a tuple.
Tup(f) == f \o <<>>

SeqsUpTo(S, n) == UNION {[1..k -> S] : k \in 0..n}

\* Python's whitespace, as far as the model's characters go.
Whitespace == {" ", "\n"}

IsSpace(c) == c \in Whitespace

\* s[:n]
Take(s, n) == SubSeq(s, 1, Min(n, Len(s)))

\* hay contains needle as a contiguous run: Python's `needle in hay`.
Contains(hay, needle) ==
    \E i \in 1..(Len(hay) - Len(needle) + 1) :
        \A j \in 1..Len(needle) : hay[i + j - 1] = needle[j]

IsBlank(s) == \A i \in 1..Len(s) : IsSpace(s[i])

\* str.strip(): s without its leading and trailing whitespace.
strip(s) ==
    IF IsBlank(s) THEN <<>>
    ELSE LET first == CHOOSE i \in 1..Len(s) :
                          /\ ~IsSpace(s[i])
                          /\ \A j \in 1..(i - 1) : IsSpace(s[j])
             last == CHOOSE i \in 1..Len(s) :
                          /\ ~IsSpace(s[i])
                          /\ \A j \in (i + 1)..Len(s) : IsSpace(s[j])
         IN SubSeq(s, first, last)

\* sep.join(parts)
RECURSIVE Join(_, _)
Join(parts, sep) ==
    IF Len(parts) = 0 THEN <<>>
    ELSE IF Len(parts) = 1 THEN parts[1]
    ELSE parts[1] \o sep \o Join(Tail(parts), sep)

\* ------------------------------------------------- results and exceptions

Return(v) == [kind |-> "return", value |-> v]
Raise(cls, msg) == [kind |-> "raise", cls |-> cls, msg |-> msg]

\* The exception classes of the script and their bases.
Bases(cls) ==
    CASE cls = "TranscriptsDisabled" -> {"TranscriptsDisabled", "Exception"}
      [] cls = "NoTranscriptFound"   -> {"NoTranscriptFound", "Exception"}
      [] cls = "RequestException"    -> {"RequestException", "Exception"}
      [] cls = "HTTPError"           -> {"HTTPError", "RequestException", "Exception"}
      [] cls = "StopException"       -> {"StopException", "BaseException"}
      [] OTHER                       -> {"Exception"}

\* `except base:` catches the raised result r.
Catches(base, r) == r.kind = "raise" /\ base \in Bases(r.cls)

\* Messages an exception may carry.
Msgs == {<<"e">>}

\* ---------------------------------------------------------- configuration

PREDEFINED_PROMPTS ==
    [k \in {"General Summary", "Key Points", "Explain Simply",
            "Actionable Insights", "Custom Prompt"} |->
        CASE k = "General Summary" ->
                 <<"Provide a concise summary of the content in about 100 words.">>
          [] k = "Key Points" ->
                 <<"List the key points or main takeaways from the content.">>
          [] k = "Explain Simply" ->
                 <<"Explain the main topic of the content in simple terms.">>
          [] k = "Actionable Insights" ->
                 <<"What are the actionable insights from this content?">>
          [] OTHER -> <<>>]

InputTypes == {"Video File (MP4, MOV, AVI)", "YouTube Video URL", "Website URL"}

\* ------------------------------------------------------------- URL parser

IdLen == 11

IdChars ==
    {"a","b","c","d","e","f","g","h","i","j","k","l","m","n","o","p","q","r",
     "s","t","u","v","w","x","y","z","A","B","C","D","E","F","G","H","I","J",
     "K","L","M","N","O","P","Q","R","S","T","U","V","W","X","Y","Z","0","1",
     "2","3","4","5","6","7","8","9","_","-"}

\* The literal lit stands in s at position i.
LitAt(s, i, lit) ==
    /\ i >= 1
    /\ i + Len(lit) - 1 <= Len(s)
    /\ \A j \in 1..Len(lit) : s[i + j - 1] = lit[j]

\* ([a-zA-Z0-9_-]{11}) matches in s at position k.
IdAt(s, k) ==
    /\ k >= 1
    /\ k + IdLen - 1 <= Len(s)
    /\ \A j \in k..(k + IdLen - 1) : s[j] \in IdChars

\* s[a..b] holds no whitespace: \S*
NoSpace(s, a, b) == \A j \in a..b : ~IsSpace(s[j])

SetMin(S) == CHOOSE x \in S : \A y \in S : x <= y
SetMax(S) == CHOOSE x \in S : \A y \in S : x >= y

\* [^\/\n\s]+\/\S+\/ from position p: where the identifier starts, the
\* greedy \S+ preferring the longest run; 0 when there is no match.
AltSegments(s, p) ==
    LET slashes == {m \in p..Len(s) : s[m] = "/"}
        m == IF slashes = {} THEN 0 ELSE SetMin(slashes)
        ks == {k \in (m + 3)..Len(s) :
                  /\ s[k - 1] = "/"
                  /\ NoSpace(s, m + 1, k - 2)
                  /\ IdAt(s, k)}
    IN IF m > p /\ NoSpace(s, p, m - 1) /\ ks # {} THEN SetMax(ks) ELSE 0

\* (?:v|e(?:mbed)?)\/ from position p.
AltEmbed(s, p) ==
    IF LitAt(s, p, <<"v", "/">>) /\ IdAt(s, p + 2) THEN p + 2
    ELSE IF LitAt(s, p, <<"e", "m", "b", "e", "d", "/">>) /\ IdAt(s, p + 6) THEN p + 6
    ELSE IF LitAt(s, p, <<"e", "/">>) /\ IdAt(s, p + 2) THEN p + 2
    ELSE 0

\* \S*?[?&]v= from position p, the lazy \S*? preferring the shortest run.
AltQuery(s, p) ==
    LET ks == {q + 3 : q \in {q \in p..Len(s) :
                  /\ NoSpace(s, p, q - 1)
                  /\ s[q] \in {"?", "&"}
                  /\ LitAt(s, q + 1, <<"v", "=">>)
                  /\ IdAt(s, q + 3)}}
    IN IF ks # {} THEN SetMin(ks) ELSE 0

\* The whole pattern tried at position i: where group 1 starts, or 0.
MatchAt(s, i) ==
    IF LitAt(s, i, <<"y","o","u","t","u","b","e",".","c","o","m","/">>) THEN
        LET p == i + 12 IN
        IF AltSegments(s, p) # 0 THEN AltSegments(s, p)
        ELSE IF AltEmbed(s, p) # 0 THEN AltEmbed(s, p)
        ELSE AltQuery(s, p)
    ELSE IF LitAt(s, i, <<"y","o","u","t","u",".","b","e","/">>) /\ IdAt(s, i + 9)
        THEN i + 9
    ELSE 0

\* re.search: the leftmost position where the pattern matches; group(1).
get_youtube_video_id(url) ==
    LET starts == {i \in 1..Len(url) : MatchAt(url, i) # 0} IN
    IF starts = {} THEN Absent
    ELSE LET k == MatchAt(url, SetMin(starts)) IN Some(SubSeq(url, k, k + IdLen - 1))

\* ----------------------------------------------------- transcript fetcher

NeedleCouldNot == <<"Could not retrieve transcript">>
NeedleDisabled == <<"Transcripts are disabled">>
NeedleNotFound == <<"No transcript found">>

MsgDisabled == NeedleDisabled \o <<" for this video.">>
MsgNotFound ==
    NeedleNotFound
    \o <<" for this video. It might be a music video, very short, or processing.">>
MsgCouldNot(msg) == NeedleCouldNot \o <<": ">> \o msg

\* The try block without the inner `except NoTranscriptFound`: no fallback
\* to the generated transcript.
TranscriptBodyNoFallback(svc) ==
    IF svc.list.kind = "raise" THEN svc.list
    ELSE IF svc.manual.kind = "raise" THEN svc.manual
    ELSE IF svc.manual.value.fetch.kind = "raise" THEN svc.manual.value.fetch
    ELSE Return(Join(svc.manual.value.fetch.value, <<" ">>))

\* The try block of fetch_youtube_transcript on what the service offers:
\* svc.list is the outcome of list_transcripts, svc.manual and svc.generated
\* those of find_manually_created_transcript and find_generated_transcript
\* for ['en'], and a found transcript carries the outcome of its fetch().
TranscriptBody(svc) ==
    IF svc.list.kind = "raise" THEN svc.list
    ELSE LET found == IF Catches("NoTranscriptFound", svc.manual)
                      THEN svc.generated
                      ELSE svc.manual
         IN IF found.kind = "raise" THEN found
            ELSE IF found.value.fetch.kind = "raise" THEN found.value.fetch
            ELSE Return(Join(found.value.fetch.value, <<" ">>))

fetch_youtube_transcript(svc) ==
    LET body == TranscriptBody(svc) IN
    IF body.kind = "return" THEN body
    ELSE IF Catches("TranscriptsDisabled", body) THEN Return(MsgDisabled)
    ELSE IF Catches("NoTranscriptFound", body) THEN Return(MsgNotFound)
    ELSE IF Catches("Exception", body) THEN Return(MsgCouldNot(body.msg))
    ELSE body

\* ----------------------------------------------------- web text extractor

NeedleFetching == <<"Error fetching website content">>
NeedleParsing == <<"Error parsing website content">>

MsgFetching(msg) == NeedleFetching \o <<": ">> \o msg
MsgParsing(msg) == NeedleParsing \o <<": ">> \o msg

\* soup.get_text(separator=" ", strip=True) once script and style elements
\* are decomposed: every remaining text, stripped, the empty ones skipped.
get_text(doc) ==
    LET visible == SelectSeq(doc, LAMBDA n : n.tag \notin {"script", "style"})
        stripped == [i \in 1..Len(visible) |-> strip(visible[i].text)]
        pieces == SelectSeq(stripped, LAMBDA t : Len(t) > 0)
    IN Join(pieces, <<" ">>)

\* re.sub(r"\s\s+", " ", text): every run of two or more whitespace
\* characters becomes one space.
CollapseSpaces(text) ==
    LET indexed == Tup([i \in 1..Len(text) |-> <<i, text[i]>>])
        kept == SelectSeq(indexed, LAMBDA e :
                    ~(IsSpace(e[2]) /\ e[1] > 1 /\ IsSpace(text[e[1] - 1])))
    IN Tup([i \in 1..Len(kept) |->
               IF /\ IsSpace(kept[i][2])
                  /\ kept[i][1] < Len(text)
                  /\ IsSpace(text[kept[i][1] + 1])
               THEN " "
               ELSE kept[i][2]])

\* The try block of fetch_website_text on what the HTTP fetch yields:
\* resp is the outcome of requests.get; a response carries its status and
\* the outcome of parsing its body.
WebsiteBody(resp) ==
    IF resp.kind = "raise" THEN resp
    ELSE IF ~resp.value.ok THEN Raise("HTTPError", resp.value.reason)
    ELSE IF resp.value.parse.kind = "raise" THEN resp.value.parse
    ELSE Return(CollapseSpaces(get_text(resp.value.parse.value)))

fetch_website_text(resp) ==
    LET body == WebsiteBody(resp) IN
    IF body.kind = "return" THEN body
    ELSE IF Catches("RequestException", body) THEN Return(MsgFetching(body.msg))
    ELSE IF Catches("Exception", body) THEN Return(MsgParsing(body.msg))
    ELSE body

\* ------------------------------------------------------------- dispatcher

max_chars == 25000

TruncationMarker == <<"... [content truncated]">>

\* The truncation with >= for >: a text of exactly max_chars gets the marker.
TruncateOffByOne(text) ==
    IF Len(text) >= max_chars THEN Take(text, max_chars) \o TruncationMarker
    ELSE text

\* content[:max_chars] + "... [content truncated]" when content is longer.
Truncate(text) ==
    IF Len(text) > max_chars THEN Take(text, max_chars) \o TruncationMarker
    ELSE text

VideoPrompt(query) ==
    <<"Analyze the uploaded video for content and context. Respond to the following query: ">>
    \o query
    \o <<"Provide a detailed, user-friendly, and actionable response.">>

YouTubePrompt(query, text) ==
    <<"You are provided with a transcript from a YouTube video. Based on this transcript, respond to the following query: ">>
    \o query \o <<"Transcript:">> \o text
    \o <<"Provide a detailed, user-friendly, and actionable summary or response.">>

WebsitePrompt(query, text) ==
    <<"You are provided with text content extracted from a website. Based on this content, respond to the following query: ">>
    \o query \o <<"Website Content:">> \o text
    \o <<"Provide a detailed, user-friendly, and actionable summary or response.">>

\* The guard without the strip: a whitespace-only instruction passes.
QueryMissingNoStrip(query) == Len(query) = 0

\* `if not user_query.strip()`
QueryMissing(query) == Len(strip(query)) = 0

\* The substring tests on the transcript fetcher's result.
TranscriptFailed(text) ==
    \/ Contains(text, NeedleCouldNot)
    \/ Contains(text, NeedleDisabled)
    \/ Contains(text, NeedleNotFound)

\* The substring tests on the web text extractor's result.
WebsiteFailed(text) ==
    \/ Contains(text, NeedleFetching)
    \/ Contains(text, NeedleParsing)

\* Banners and results.
Banner(kind, text) == [kind |-> kind, text |-> text]

WarnVideoQuery ==
    Banner("warning", <<"Please enter a question or ensure a predefined prompt is selected.">>)
WarnQuery ==
    Banner("warning", <<"Please enter a summarization request or ensure a predefined prompt is selected.">>)
WarnNoContent ==
    Banner("warning", <<"Could not extract meaningful content from the website. It might be a very dynamic page or access is restricted.">>)
InfoVideo == Banner("info", <<"Upload a video file to begin analysis.">>)
InfoYouTube == Banner("info", <<"Enter a YouTube video URL to summarize.">>)
InfoWebsite == Banner("info", <<"Enter a website URL to summarize.">>)
ErrorInvalidUrl ==
    Banner("error", <<"Invalid YouTube URL. Please enter a valid URL.">>)
ErrorProcessing(handle) ==
    Banner("error", <<"Video processing failed. Error: ">>
                    \o (IF handle.error # Absent THEN handle.error[1]
                        ELSE <<"Unknown error">>))
ErrorVideo(msg) ==
    Banner("error", <<"An error occurred during video file analysis: ">> \o msg)
ErrorSummarization(msg) ==
    Banner("error", <<"Error during summarization: ">> \o msg)
Result(heading, text) ==
    <<Banner("subheader", <<heading>>), Banner("markdown", text)>>

\* ----------------------------------------------------------------- inputs

\* The text area holds what the user typed, or the prompt selected.
Queries ==
    SeqsUpTo({"q", " "}, MaxQueryLen)
    \cup {PREDEFINED_PROMPTS[k] : k \in DOMAIN PREDEFINED_PROMPTS}

HostLong == <<"y","o","u","t","u","b","e",".","c","o","m","/">>
HostShort == <<"y","o","u","t","u",".","b","e","/">>
SampleId == <<"d","Q","w","4","w","9","W","g","X","c","Q">>

Urls ==
    { <<>>,
      <<"h","t","t","p","s",":","/","/">> \o HostLong
          \o <<"w","a","t","c","h","?","v","=">> \o SampleId,
      HostShort \o SampleId,
      HostLong \o <<"e","m","b","e","d","/">> \o SampleId,
      HostLong \o <<"v","/">> \o SampleId,
      HostLong \o <<"u","s","e","r","/","x","/">> \o SampleId,
      HostLong \o <<"w","a","t","c","h">>,
      HostShort \o Take(SampleId, IdLen - 1),
      <<"x">> }

\* What upload_file and get_file may do: raise, or return a handle.
MediaStates == {"PROCESSING", "ACTIVE", "FAILED"}
FileName == "files/video"
Handles ==
    {[name |-> FileName, state |-> st, error |-> Absent] : st \in MediaStates}
    \cup {[name |-> FileName, state |-> "FAILED", error |-> Some(m)] : m \in Msgs}
MediaOutcomes ==
    {Return(h) : h \in Handles} \cup {Raise("Exception", m) : m \in Msgs}

\* What summarizer_agent.run may do: raise, or return a response.
AgentOutcomes ==
    {Return(<<"summary">>)} \cup {Raise("Exception", m) : m \in Msgs}

\* What the transcript service may offer.
SegmentTexts == {<<>>, <<"a">>, NeedleNotFound}
Fetches ==
    {Return(segs) : segs \in SeqsUpTo(SegmentTexts, MaxSegments)}
    \cup {Raise("Exception", m) : m \in Msgs}
Finds ==
    {Return([fetch |-> f]) : f \in Fetches}
    \cup {Raise("NoTranscriptFound", <<>>)}
    \cup {Raise("Exception", m) : m \in Msgs}
TranscriptOffers ==
    {[list |-> Return("transcript_list"), manual |-> m, generated |-> g] :
        m \in Finds, g \in Finds}
    \cup {[list |-> Raise(c, <<"e">>), manual |-> Raise("NoTranscriptFound", <<>>),
           generated |-> Raise("NoTranscriptFound", <<>>)] :
        c \in {"TranscriptsDisabled", "Exception"}}

\* What the HTTP fetch may yield.
PageTexts ==
    {<<>>, <<" ">>, <<"a">>, <<"a", " ", "\n", "b">>, <<" ", "a", "\n">>,
     NeedleFetching}
Tags == {"p", "script", "style"}
LongText(n) ==
    Tup([i \in 1..n |-> IF i % 5 = 0 /\ i < n THEN " "
                        ELSE IF i % 2 = 0 THEN "a" ELSE "b"])
Pages ==
    SeqsUpTo([tag : Tags, text : PageTexts], MaxNodes)
    \cup {<<[tag |-> "p", text |-> LongText(n)]>> :
             n \in (max_chars - 1)..(max_chars + MaxOver)}
Responses ==
    {Return([ok |-> TRUE, reason |-> <<>>, parse |-> Return(page)]) : page \in Pages}
    \cup {Return([ok |-> TRUE, reason |-> <<>>, parse |-> Raise("Exception", m)]) :
             m \in Msgs}
    \cup {Return([ok |-> FALSE, reason |-> m, parse |-> Return(<<>>)]) : m \in Msgs}
    \cup {Raise("RequestException", m) : m \in Msgs}

\* ------------------------------------------------------------ the script

\* The name NamedTemporaryFile gives the file of run n: one no other run has.
TempName(n) == <<"tmp", n, ".mp4">>

Positions ==
    {"idle", "upload", "poll", "agent_video", "transcript", "agent_youtube",
     "fetch", "agent_website", "done"}

NoHandle == [name |-> None, state |-> "NONE", error |-> Absent]

\* An external call as the history keeps it: r is what the call did.
Call(fn, args, r) == [fn |-> fn, args |-> args, raised |-> (r.kind = "raise")]

\* The first run of a session: the page is empty, no button can be pressed,
\* and the run has not read its widgets yet.
Init ==
    /\ run = 1
    /\ rendered = None
    /\ fs = {}
    /\ pc = "idle"
    /\ input_type = None
    /\ user_query = <<>>
    /\ button = FALSE
    /\ video_path = Absent
    /\ processed_video = NoHandle
    /\ observed = <<>>
    /\ calls = <<>>
    /\ video_id = Absent
    /\ offered = Absent
    /\ transcript = Absent
    /\ extracted = Absent
    /\ extract_ok = FALSE
    /\ content = Absent
    /\ analysis_prompt = Absent
    /\ ui = <<>>
    /\ escaped = Absent

\* --- video file

\* The script up to the first remote call of the video branch: the temporary
\* copy of the uploaded file, the button and the instruction guard.
RunVideo ==
    /\ pc = "idle"
    /\ \E query \in Queries, uploaded \in BOOLEAN, pressed \in BOOLEAN :
        /\ pressed => (uploaded /\ rendered = "Video File (MP4, MOV, AVI)")
        /\ input_type' = "Video File (MP4, MOV, AVI)"
        /\ user_query' = query
        /\ button' = pressed
        /\ rendered' = IF uploaded THEN "Video File (MP4, MOV, AVI)" ELSE None
        /\ IF ~uploaded
           THEN /\ ui' = <<InfoVideo>>
                /\ pc' = "done"
                /\ UNCHANGED <<fs, video_path>>
           ELSE /\ fs' = fs \cup {TempName(run)}
                /\ video_path' = TempName(run)
                /\ IF ~pressed THEN pc' = "done" /\ ui' = <<>>
                   ELSE IF QueryMissing(query)
                   THEN pc' = "done" /\ ui' = <<WarnVideoQuery>>
                   ELSE pc' = "upload" /\ ui' = <<>>
    /\ UNCHANGED <<run, processed_video, observed, calls, video_id, offered,
                   transcript, extracted, extract_ok, content,
                   analysis_prompt, escaped>>

\* finally: Path(video_path).unlink(missing_ok=True)
Unlinked == fs \ {video_path}

\* An exception r raised inside the try block of the video branch:
\* `except Exception` reports it, the finally clause removes the file, and
\* what is not caught leaves the block.  st.stop()'s StopException is no
\* Exception; the script runner ends the run on it.
VideoRaised(r, shown) ==
    /\ ui' = IF Catches("Exception", r) THEN Append(shown, ErrorVideo(r.msg))
             ELSE shown
    /\ escaped' = IF Catches("Exception", r) \/ r.cls = "StopException"
                  THEN Absent ELSE Some(r)
    /\ fs' = Unlinked
    /\ pc' = "done"

\* The loop test as `!= "ACTIVE"`: a FAILED handle is polled again.
StillProcessingUntilActive(handle) == handle.state # "ACTIVE"

\* The loop test as `while True`: the loop never looks at the state.
StillProcessingForever(handle) == TRUE

\* `while processed_video.state.name == "PROCESSING"`
StillProcessing(handle) == handle.state = "PROCESSING"

\* The try block from the outcome r of upload_file or get_file to the next
\* remote call: the loop test, the FAILED test and the prompt.
Polled(r) ==
    IF r.kind = "raise"
    THEN /\ VideoRaised(r, ui)
         /\ UNCHANGED <<processed_video, observed, analysis_prompt>>
    ELSE /\ processed_video' = r.value
         /\ observed' = Append(observed, r.value.state)
         /\ IF StillProcessing(r.value)
            THEN /\ Len(observed) < MaxPolls
                 /\ pc' = "poll"
                 /\ UNCHANGED <<fs, ui, escaped, analysis_prompt>>
            ELSE IF r.value.state = "FAILED"
            THEN /\ VideoRaised(Raise("StopException", <<>>),
                                Append(ui, ErrorProcessing(r.value)))
                 /\ UNCHANGED analysis_prompt
            ELSE /\ analysis_prompt' = Some(VideoPrompt(user_query))
                 /\ pc' = "agent_video"
                 /\ UNCHANGED <<fs, ui, escaped>>

UploadFile ==
    /\ pc = "upload"
    /\ \E r \in MediaOutcomes :
        /\ calls' = Append(calls, Call("upload_file", <<video_path>>, r))
        /\ Polled(r)
    /\ UNCHANGED <<run, rendered, input_type, user_query, button, video_path, video_id,
                   offered, transcript, extracted, extract_ok, content>>

\* time.sleep(2); get_file(processed_video.name), the call doing r.
GetFileDoes(r) ==
    /\ pc = "poll"
    /\ calls' = Append(calls, Call("get_file", <<processed_video.name>>, r))
    /\ Polled(r)
    /\ UNCHANGED <<run, rendered, input_type, user_query, button, video_path, video_id,
                   offered, transcript, extracted, extract_ok, content>>

GetFile == \E r \in MediaOutcomes : GetFileDoes(r)

AgentRunVideo ==
    /\ pc = "agent_video"
    /\ \E r \in AgentOutcomes :
        /\ calls' = Append(calls, Call("summarizer_agent.run",
                           <<analysis_prompt[1], <<processed_video>>>>, r))
        /\ IF r.kind = "return"
           THEN /\ ui' = ui \o Result("Video File Analysis Result", r.value)
                /\ fs' = Unlinked
                /\ pc' = "done"
                /\ UNCHANGED escaped
           ELSE VideoRaised(r, ui)
    /\ UNCHANGED <<run, rendered, input_type, user_query, button, video_path,
                   processed_video, observed, video_id, offered, transcript,
                   extracted, extract_ok, content, analysis_prompt>>

\* --- YouTube URL

RunYouTube ==
    /\ pc = "idle"
    /\ \E query \in Queries, url \in Urls, pressed \in BOOLEAN :
        /\ pressed => (Len(url) > 0 /\ rendered = "YouTube Video URL")
        /\ input_type' = "YouTube Video URL"
        /\ user_query' = query
        /\ button' = pressed
        /\ rendered' = IF Len(url) > 0 THEN "YouTube Video URL" ELSE None
        /\ IF Len(url) = 0
           THEN ui' = <<InfoYouTube>> /\ pc' = "done" /\ UNCHANGED video_id
           ELSE IF ~pressed
           THEN ui' = <<>> /\ pc' = "done" /\ UNCHANGED video_id
           ELSE IF QueryMissing(query)
           THEN ui' = <<WarnQuery>> /\ pc' = "done" /\ UNCHANGED video_id
           ELSE /\ video_id' = get_youtube_video_id(url)
                /\ IF video_id' = Absent
                   THEN ui' = <<ErrorInvalidUrl>> /\ pc' = "done"
                   ELSE ui' = <<>> /\ pc' = "transcript"
    /\ UNCHANGED <<run, fs, video_path, processed_video, observed, calls,
                   offered, transcript, extracted, extract_ok, content,
                   analysis_prompt, escaped>>

\* The agent call without its try/except: the exception leaves the script.
SummarizationUncaught(r) ==
    /\ ui' = ui
    /\ escaped' = Some(r)

\* An exception r raised by summarizer_agent.run in the YouTube and website
\* branches: `except Exception as e: st.error(...)`.
SummarizationRaised(r) ==
    /\ ui' = IF Catches("Exception", r) THEN Append(ui, ErrorSummarization(r.msg))
             ELSE ui
    /\ escaped' = IF Catches("Exception", r) THEN Absent ELSE Some(r)

FetchTranscript ==
    /\ pc = "transcript"
    /\ \E svc \in TranscriptOffers :
        LET r == fetch_youtube_transcript(svc) IN
        /\ calls' = Append(calls, Call("fetch_youtube_transcript", <<video_id[1]>>, r))
        /\ offered' = Some(svc)
        /\ extract_ok' = (TranscriptBody(svc).kind = "return")
        /\ IF r.kind = "raise"
           THEN /\ escaped' = Some(r)
                /\ pc' = "done"
                /\ UNCHANGED <<transcript, analysis_prompt, ui>>
           ELSE /\ transcript' = Some(r.value)
                /\ escaped' = Absent
                /\ IF TranscriptFailed(r.value)
                   THEN /\ ui' = Append(ui, Banner("error", r.value))
                        /\ pc' = "done"
                        /\ UNCHANGED analysis_prompt
                   ELSE /\ analysis_prompt' = Some(YouTubePrompt(user_query, r.value))
                        /\ pc' = "agent_youtube"
                        /\ UNCHANGED ui
    /\ UNCHANGED <<run, rendered, input_type, user_query, button, fs, video_path,
                   processed_video, observed, video_id, extracted, content>>

AgentRunYouTube ==
    /\ pc = "agent_youtube"
    /\ \E r \in AgentOutcomes :
        /\ calls' = Append(calls, Call("summarizer_agent.run",
                                       <<analysis_prompt[1], <<>>>>, r))
        /\ IF r.kind = "return"
           THEN /\ ui' = ui \o Result("YouTube Video Summary", r.value)
                /\ UNCHANGED escaped
           ELSE SummarizationRaised(r)
    /\ pc' = "done"
    /\ UNCHANGED <<run, rendered, input_type, user_query, button, fs, video_path,
                   processed_video, observed, video_id, offered, transcript,
                   extracted, extract_ok, content, analysis_prompt>>

\* --- website URL

website_url == <<"u">>

WebsiteUrls == {<<>>, website_url}

RunWebsite ==
    /\ pc = "idle"
    /\ \E query \in Queries, url \in WebsiteUrls, pressed \in BOOLEAN :
        /\ pressed => (Len(url) > 0 /\ rendered = "Website URL")
        /\ input_type' = "Website URL"
        /\ user_query' = query
        /\ button' = pressed
        /\ rendered' = IF Len(url) > 0 THEN "Website URL" ELSE None
        /\ IF Len(url) = 0 THEN ui' = <<InfoWebsite>> /\ pc' = "done"
           ELSE IF ~pressed THEN ui' = <<>> /\ pc' = "done"
           ELSE IF QueryMissing(query) THEN ui' = <<WarnQuery>> /\ pc' = "done"
           ELSE ui' = <<>> /\ pc' = "fetch"
    /\ UNCHANGED <<run, fs, video_path, processed_video, observed, calls,
                   video_id, offered, transcript, extracted, extract_ok,
                   content, analysis_prompt, escaped>>

FetchWebsite ==
    /\ pc = "fetch"
    /\ \E resp \in Responses :
        LET r == fetch_website_text(resp) IN
        /\ calls' = Append(calls, Call("fetch_website_text", <<website_url>>, r))
        /\ extract_ok' = (WebsiteBody(resp).kind = "return")
        /\ IF r.kind = "raise"
           THEN /\ escaped' = Some(r)
                /\ pc' = "done"
                /\ UNCHANGED <<extracted, content, analysis_prompt, ui>>
           ELSE /\ extracted' = Some(r.value)
                /\ escaped' = Absent
                /\ IF WebsiteFailed(r.value)
                   THEN /\ ui' = Append(ui, Banner("error", r.value))
                        /\ pc' = "done"
                        /\ content' = Some(r.value)
                        /\ UNCHANGED analysis_prompt
                   ELSE IF Len(strip(r.value)) = 0
                   THEN /\ ui' = Append(ui, WarnNoContent)
                        /\ pc' = "done"
                        /\ content' = Some(r.value)
                        /\ UNCHANGED analysis_prompt
                   ELSE /\ content' = Some(Truncate(r.value))
                        /\ analysis_prompt' =
                               Some(WebsitePrompt(user_query, Truncate(r.value)))
                        /\ pc' = "agent_website"
                        /\ UNCHANGED ui
    /\ UNCHANGED <<run, rendered, input_type, user_query, button, fs, video_path,
                   processed_video, observed, video_id, offered, transcript>>

AgentRunWebsite ==
    /\ pc = "agent_website"
    /\ \E r \in AgentOutcomes :
        /\ calls' = Append(calls, Call("summarizer_agent.run",
                                       <<analysis_prompt[1], <<>>>>, r))
        /\ IF r.kind = "return"
           THEN /\ ui' = ui \o Result("Website Content Summary", r.value)
                /\ UNCHANGED escaped
           ELSE SummarizationRaised(r)
    /\ pc' = "done"
    /\ UNCHANGED <<run, rendered, input_type, user_query, button, fs, video_path,
                   processed_video, observed, video_id, offered, transcript,
                   extracted, extract_ok, content, analysis_prompt>>

\* --- the next interaction

\* A widget changes and Streamlit runs the script again from the top: the
\* run's own state starts afresh, the page keeps what the last run rendered
\* until the new run renders its own, and the files on disk stay.
Rerun ==
    /\ pc = "done"
    /\ run < MaxRuns
    /\ run' = run + 1
    /\ pc' = "idle"
    /\ input_type' = None
    /\ user_query' = <<>>
    /\ button' = FALSE
    /\ video_path' = Absent
    /\ processed_video' = NoHandle
    /\ observed' = <<>>
    /\ calls' = <<>>
    /\ video_id' = Absent
    /\ offered' = Absent
    /\ transcript' = Absent
    /\ extracted' = Absent
    /\ extract_ok' = FALSE
    /\ content' = Absent
    /\ analysis_prompt' = Absent
    /\ ui' = <<>>
    /\ escaped' = Absent
    /\ UNCHANGED <<rendered, fs>>

Next ==
    \/ Rerun
    \/ RunVideo
    \/ UploadFile
    \/ GetFile
    \/ AgentRunVideo
    \/ RunYouTube
    \/ FetchTranscript
    \/ AgentRunYouTube
    \/ RunWebsite
    \/ FetchWebsite
    \/ AgentRunWebsite

Spec == Init /\ [][Next]_vars

TypeOK ==
    /\ pc \in Positions
    /\ input_type \in InputTypes \cup {None}
    /\ run \in 1..MaxRuns
    /\ rendered \in InputTypes \cup {None}
    /\ fs \subseteq {TempName(n) : n \in 1..MaxRuns}

\* The step of the script at position p, told by what it does to pc: under
\* Next it is the action whose guard is pc = p.
StepAt(p) == pc = p /\ pc' \in Positions \ {p}

\* The script, once started, runs each step; a remote call returns or raises.
\* The polling loop is left out: how long it lasts is the media service's doing.
HandlerFairness ==
    \A p \in {"upload", "agent_video", "transcript", "agent_youtube",
              "fetch", "agent_website"} : WF_pc(StepAt(p))

\* The media service reports a state other than Processing to a poll.
ServiceSettles ==
    \E r \in MediaOutcomes :
        /\ r.kind = "return"
        /\ r.value.state # "PROCESSING"
        /\ GetFileDoes(r)

\* The script's progress alone: the media service may report Processing forever.
HandlerSpec == Spec /\ HandlerFairness

\* The script's progress, and a media service that eventually settles.
LiveSpec == Spec /\ HandlerFairness /\ WF_vars(ServiceSettles)

\* ------------------------------------------------------------- properties

VideoKind == "Video File (MP4, MOV, AVI)"
YouTubeKind == "YouTube Video URL"
WebsiteKind == "Website URL"

CallsOf(fn) == SelectSeq(calls, LAMBDA c : c.fn = fn)
AgentCalls == CallsOf("summarizer_agent.run")

HasBanner(kinds) == \E i \in 1..Len(ui) : ui[i].kind \in kinds

\* The extractor of this run ended without an exception and gave text that is
\* not blank, or the media service reported the upload ready.
ExtractionSucceeded ==
    \/ input_type = YouTubeKind /\ transcript # Absent /\ extract_ok
         /\ ~IsBlank(transcript[1])
    \/ input_type = WebsiteKind /\ extracted # Absent /\ extract_ok
         /\ ~IsBlank(extracted[1])
    \/ input_type = VideoKind /\ Len(observed) > 0
         /\ observed[Len(observed)] = "ACTIVE"

\* The extractor of this run ended in an exception, or gave blank text.
ExtractionFailed ==
    \/ input_type = YouTubeKind /\ transcript # Absent
         /\ (~extract_ok \/ IsBlank(transcript[1]))
    \/ input_type = WebsiteKind /\ extracted # Absent
         /\ (~extract_ok \/ IsBlank(extracted[1]))

\* C1: once an action on an uploaded video has completed, whatever its exit
\* path, no temporary file written for that upload is on disk: not the one
\* of the run of the action, and not the one of the run before it, which
\* rendered the button.
C1_TempFileAbsentAfterAction ==
    (pc = "done" /\ button /\ input_type = VideoKind) =>
        /\ video_path \notin fs
        /\ TempName(run - 1) \notin fs

\* C2: an action whose instruction is blank ends at once with one warning,
\* and no upload, extractor or agent call has been made.
C2_BlankInstructionRejected ==
    (button /\ IsBlank(user_query)) =>
        /\ pc = "done"
        /\ calls = <<>>
        /\ Len(ui) = 1
        /\ ui[1].kind = "warning"

C2_Witness ==
    /\ pc = "done"
    /\ button
    /\ input_type = VideoKind
    /\ Len(user_query) > 0
    /\ IsBlank(user_query)

\* C3: the handle is re-fetched once per Processing state observed and never
\* after another state; a Ready handle is the one the agent is called with; a
\* Failed handle ends the action with the service's message, or "Unknown
\* error", and without an agent call.
C3_PollsUntilFirstSettledState ==
    LET n == Len(observed)
        processing == Len(SelectSeq(observed, LAMBDA st : st = "PROCESSING"))
        refetches == Len(CallsOf("get_file"))
    IN n > 0 =>
        /\ \A i \in 1..(n - 1) : observed[i] = "PROCESSING"
        /\ refetches = IF pc = "poll" THEN processing - 1 ELSE processing
        /\ observed[n] = "PROCESSING" =>
               \/ pc = "poll"
               \/ pc = "done" /\ calls[Len(calls)].raised
        /\ observed[n] = "ACTIVE" =>
               /\ processed_video.state = "ACTIVE"
               /\ \/ pc = "agent_video" /\ Len(AgentCalls) = 0
                  \/ /\ pc = "done"
                     /\ Len(AgentCalls) = 1
                     /\ AgentCalls[1].args[2] = <<processed_video>>
        /\ observed[n] = "FAILED" =>
               /\ pc = "done"
               /\ Len(AgentCalls) = 0
               /\ ui = <<Banner("error",
                     <<"Video processing failed. Error: ">>
                     \o (IF processed_video.error = Absent
                         THEN <<"Unknown error">>
                         ELSE processed_video.error[1]))>>

C3_Witness ==
    /\ pc = "done"
    /\ observed = <<"PROCESSING", "PROCESSING", "ACTIVE">>
    /\ Len(CallsOf("get_file")) = 2
    /\ Len(AgentCalls) = 1

\* C4: in one action the agent is called at most once, and exactly once when
\* the instruction is not blank and extraction or media processing succeeded;
\* no upload or extractor runs twice and nothing is called after a failure.
C4_AgentCalledExactlyOnce ==
    /\ Len(AgentCalls) <= 1
    /\ Len(CallsOf("upload_file")) <= 1
    /\ Len(CallsOf("fetch_youtube_transcript")) <= 1
    /\ Len(CallsOf("fetch_website_text")) <= 1
    /\ \A i \in 1..(Len(calls) - 1) : ~calls[i].raised
    /\ (pc = "done" /\ ExtractionSucceeded) => Len(AgentCalls) = 1

\* C5: a failed extraction, an empty result included, ends the action with an
\* error or a warning and without an agent call.
C5_ExtractionFailureIsTerminal ==
    ExtractionFailed =>
        /\ pc = "done"
        /\ Len(AgentCalls) = 0
        /\ HasBanner({"error", "warning"})

\* C6: the website text in the prompt is the extracted text itself up to
\* 25,000 characters, and its first 25,000 characters followed by the marker
\* beyond.
C6_ContentTruncatedAtBudget ==
    (input_type = WebsiteKind /\ analysis_prompt # Absent) =>
        LET text == extracted[1]
            expected == IF Len(text) <= max_chars THEN text
                        ELSE SubSeq(text, 1, max_chars)
                             \o <<"... [content truncated]">>
        IN /\ content = Some(expected)
           /\ analysis_prompt = Some(WebsitePrompt(user_query, expected))
           /\ \A i \in 1..Len(AgentCalls) : AgentCalls[i].args[1] = analysis_prompt[1]

C6_Witness ==
    /\ pc = "done"
    /\ input_type = WebsiteKind
    /\ extracted # Absent
    /\ Len(extracted[1]) > max_chars
    /\ Len(content[1]) = max_chars + 1
    /\ Len(AgentCalls) = 1

\* The transcript fetcher's result as the specification tells it, case by
\* case of what the service offers.
SpokenText(found) == Join(found.value.fetch.value, <<" ">>)
ExpectedTranscript(svc) ==
    LET failure(r) ==
            IF r.cls = "TranscriptsDisabled" THEN MsgDisabled
            ELSE IF r.cls = "NoTranscriptFound" THEN MsgNotFound
            ELSE NeedleCouldNot \o <<": ">> \o r.msg
        from(found) ==
            IF found.value.fetch.kind = "raise" THEN failure(found.value.fetch)
            ELSE SpokenText(found)
    IN IF svc.list.kind = "raise" THEN failure(svc.list)
       ELSE IF svc.manual.kind = "return" THEN from(svc.manual)
       ELSE IF svc.manual.cls # "NoTranscriptFound" THEN failure(svc.manual)
       ELSE IF svc.generated.kind = "return" THEN from(svc.generated)
       ELSE failure(svc.generated)

\* C7: fetch_youtube_transcript never raises; it gives the manual English
\* transcript joined by spaces, else the generated one, else the string of
\* the failure: disabled, not found, or another error with its message.
C7_TranscriptByOffer ==
    offered # Absent =>
        /\ escaped = Absent
        /\ ~calls[1].raised
        /\ transcript = Some(ExpectedTranscript(offered[1]))

C7_Witness ==
    /\ offered # Absent
    /\ offered[1].list.kind = "return"
    /\ offered[1].manual = Raise("NoTranscriptFound", <<>>)
    /\ offered[1].generated.kind = "return"
    /\ transcript = Some(<<"a", " ", "a">>)
    /\ pc = "done"

\* C8: an exception of the upload, the polling or the agent call ends the
\* action with an error banner, no result rendered, nothing left unhandled.
C8_RemoteExceptionsReported ==
    /\ escaped = Absent
    /\ \A i \in 1..Len(calls) :
           calls[i].raised =>
               /\ pc = "done"
               /\ i = Len(calls)
               /\ Len(ui) > 0
               /\ ui[Len(ui)].kind = "error"
               /\ ~HasBanner({"subheader", "markdown"})

C8_Witness ==
    /\ pc = "done"
    /\ input_type = WebsiteKind
    /\ Len(calls) = 2
    /\ calls[2].fn = "summarizer_agent.run"
    /\ calls[2].raised
    /\ ui = <<ErrorSummarization(<<"e">>)>>

\* C9: text from an extractor that succeeded, whatever it contains, is put in
\* the prompt and the agent is called.
C9_OnlyRealFailuresRejected ==
    (pc = "done" /\ ExtractionSucceeded /\ input_type # VideoKind) =>
        /\ Len(AgentCalls) = 1
        /\ analysis_prompt # Absent
        /\ input_type = YouTubeKind =>
               Contains(analysis_prompt[1], transcript[1])
        /\ input_type = WebsiteKind =>
               Contains(analysis_prompt[1], Take(extracted[1], max_chars))

\* C10: with a media service that eventually settles, every action started
\* ends; while the handle is polled the temporary file stays on disk.
C10_EveryActionEnds ==
    /\ [](pc = "poll" => video_path \in fs)
    /\ (pc # "idle") ~> (pc = "done")

C10_Witness ==
    /\ pc = "done"
    /\ Len(observed) = MaxPolls + 1
    /\ observed[MaxPolls] = "PROCESSING"
    /\ video_path \notin fs
    /\ fs # {}

====
